---- MODULE Spec2Model ----
(***************************************************************************)
(* LifeArchive: the ingestion pipelines of ingest-photos.py (run_ingestor)  *)
(* and gather-pictures.py (main / process_file) as one state machine.      *)
(* The variable `program` says which of the two scripts is being run; the  *)
(* source tree, the archive directory and the SQLite index are the shared  *)
(* shape of state both scripts work on.                                    *)
(*                                                                         *)
(* Three more specifications apply the functions that work on one input:   *)
(* DateSpec the date resolvers (determine_best_date, get_validated_date,   *)
(* the final date of gather-pictures.py), HeroSpec the hero selection      *)
(* (get_16_heroes, get_heroes), CacheSpec the composite cache.             *)
(***************************************************************************)
EXTENDS Integers, Sequences, FiniteSets, TLC

VARIABLES
    program,    \* "ingest" (ingest-photos.py) or "gather" (gather-pictures.py)
    src,        \* source tree: slot -> [bytes, readable, desc]
    archive,    \* archive directory: set of [path, bytes] (one per existing file)
    thumbs,     \* _thumbs directory: set of digests that have a thumbnail file
    index,      \* committed rows of the media / dest_files table
    pending,    \* rows INSERTed in the open transaction, not yet committed
    pc,         \* "idle" | "walk" | "copy" | "thumb" | "insert" | "commit" | "done" | "crashed"
                \* | "stopped"
    pos,        \* position of the walk: the slot being processed
    cur,        \* locals of the current loop iteration
    stats,      \* the stats dictionary of the run
    runs,       \* number of runs started so far
    envs,       \* number of changes made from outside the program so far
    atStart,    \* history: index and archive as they were when the run began, and how it began
    atItem,     \* history: index and archive as they were when the current item began
    last,       \* history: what the last step did
    seen,       \* history: digest -> first non-empty description met for an indexed identity
    dr,         \* date resolution of one file: its inputs, the resolver applied, the result
    hs,         \* hero selection over one collection: its input, the function applied, the result
    cc,         \* the composite cache: its entries and the hero lists requested
    stop_requested, \* gather-pictures.py: the global flag the SIGINT handler sets
    ro,         \* the archive directory under fix-orientation.py and web-builder.py
    su,         \* the startup of one script: the roots, what it creates, how it goes on
    pt,         \* path tag extraction from one relative directory
    pb          \* the name-collision probe of process_file on one index

\* the state of the ingestion pipelines
pipeline == <<program, src, archive, thumbs, index, pending, pc, pos, cur, stats,
              runs, envs, atStart, atItem, last, seen, stop_requested>>

\* the state of the functions that are checked on their own
aside == <<dr, hs, cc, ro, su, pt, pb>>

\* what the steps of a run leave alone
rest == <<aside, stop_requested>>

vars == <<pipeline, aside>>

----------------------------------------------------------------------------
(* Bounds of the model *)

NFiles == 2
NContents == 3
MaxRuns == 3
MaxEnv == 1

Slots == 1..NFiles
Contents == 1..NContents

----------------------------------------------------------------------------
(* The source tree: every slot is one media file of the walked tree.  All  *)
(* slots live in the folder <root>/1998/Trip; the file names are a(1).jpg, *)
(* a_1.jpg, a.jpg, b.jpg, ... in walk order.                               *)

NoneVal == "<None>"

SrcFolder(i) == "Trip"
SrcPathYear(i) == 1998

\* a file name <stem>(<paren>)_<s1>_<s2>... .jpg ; paren = 0: no "(n)" part
RawName(i) ==
    CASE i = 1 -> [stem |-> "a", paren |-> 1, sfx |-> <<>>]
      [] i = 2 -> [stem |-> "a", paren |-> 0, sfx |-> <<1>>]
      [] i = 3 -> [stem |-> "a", paren |-> 0, sfx |-> <<>>]
      [] OTHER -> [stem |-> "b", paren |-> 0, sfx |-> <<>>]

\* os.path.getsize: a function of the bytes; contents 1 and 2 have equal length
SizeOf(c) == IF c <= 2 THEN 10 ELSE 20

\* hashlib digest of the bytes: injective on the contents of the model
Digest(c) == <<"d1", "d2", "d3", "d4", "d5">>[c]

\* PIL can decode the image: a function of the bytes (content 2 is corrupt)
Decodable(c) == c # 2

Descs == {NoneVal, "", "n1", "n2"}

\* Python truthiness of a description / notes value
Truthy(s) == s \notin {NoneVal, ""}

----------------------------------------------------------------------------
(* Dates and the date resolvers *)

\* a datetime: year, month, day and time of day (0 is 00:00:00); NoDate is None
Date(y, m, d, t) == [y |-> y, m |-> m, d |-> d, t |-> t]
NoDate == Date(0, 0, 0, 0)

\* datetime(y, 1, 1)
Jan1(y) == Date(y, 1, 1, 0)

\* VALID_YEAR_RANGE = range(1950, 2027)
ValidYearFirst == 1950
ValidYearStop == 2027
InValidYearRange(y) == y >= ValidYearFirst /\ y < ValidYearStop

\* the year of the result that stands for "no usable date"
InvalidYear == 1900

IsLeap(y) == (y % 4 = 0 /\ y % 100 # 0) \/ y % 400 = 0

\* mtime.replace(year=y); February 29 in a year that has none raises, and the except
\* clause returns datetime(y, mtime.month, 1)
ReplaceYear(mtime, y) ==
    IF mtime.m = 2 /\ mtime.d = 29 /\ ~IsLeap(y) THEN Date(y, mtime.m, 1, 0)
    ELSE [mtime EXCEPT !.y = y]

Resolved(dt, label) == [dt |-> dt, label |-> label]

\* (mutant) the folder year keeps the file's month and day
determine_best_date_KeepsDay(exif_dt, creation_dt, folder_year) ==
    IF folder_year # 0
    THEN IF exif_dt # NoDate /\ exif_dt.y = folder_year
         THEN Resolved(exif_dt, "EXIF (Corroborated by Folder)")
         ELSE IF creation_dt.y = folder_year
         THEN Resolved(creation_dt, "File Creation (Corroborated by Folder)")
         ELSE Resolved(ReplaceYear(creation_dt, folder_year), "Folder Override")
    ELSE IF exif_dt # NoDate /\ InValidYearRange(exif_dt.y)
         THEN Resolved(exif_dt, "EXIF (Unverified)")
         ELSE IF InValidYearRange(creation_dt.y)
         THEN Resolved(creation_dt, "File Creation (Unverified)")
         ELSE Resolved(Jan1(InvalidYear), "Invalid/Fallback")

\* (mutant) a folder year that the EXIF date does not match always forces January 1
determine_best_date_OverrideAlways(exif_dt, creation_dt, folder_year) ==
    IF folder_year # 0
    THEN IF exif_dt # NoDate /\ exif_dt.y = folder_year
         THEN Resolved(exif_dt, "EXIF (Corroborated by Folder)")
         ELSE Resolved(Jan1(folder_year), "Folder Override")
    ELSE IF exif_dt # NoDate /\ InValidYearRange(exif_dt.y)
         THEN Resolved(exif_dt, "EXIF (Unverified)")
         ELSE IF InValidYearRange(creation_dt.y)
         THEN Resolved(creation_dt, "File Creation (Unverified)")
         ELSE Resolved(Jan1(InvalidYear), "Invalid/Fallback")

\* ingest-photos.py determine_best_date(filepath, folder_year): exif_dt is the file's
\* DateTimeOriginal (NoDate when absent or unreadable), creation_dt its mtime,
\* folder_year the year matched in the directory path (0 when none)
determine_best_date(exif_dt, creation_dt, folder_year) ==
    IF folder_year # 0
    THEN IF exif_dt # NoDate /\ exif_dt.y = folder_year
         THEN Resolved(exif_dt, "EXIF (Corroborated by Folder)")
         ELSE IF creation_dt.y = folder_year
         THEN Resolved(creation_dt, "File Creation (Corroborated by Folder)")
         ELSE Resolved(Jan1(folder_year), "Folder Override")
    ELSE IF exif_dt # NoDate /\ InValidYearRange(exif_dt.y)
         THEN Resolved(exif_dt, "EXIF (Unverified)")
         ELSE IF InValidYearRange(creation_dt.y)
         THEN Resolved(creation_dt, "File Creation (Unverified)")
         ELSE Resolved(Jan1(InvalidYear), "Invalid/Fallback")

\* the sidecar JSON of a file: absent (or empty), or present with the datetime of its
\* photoTakenTime.timestamp; NoDate stands for a timestamp that does not parse
NoSidecar == [present |-> FALSE, ts |-> NoDate]
Sidecar(ts) == [present |-> TRUE, ts |-> ts]

\* datetime.fromtimestamp(0): what a sidecar without photoTakenTime yields
Epoch == Date(1970, 1, 1, 0)

\* (mutant) the mtime is returned without the test of its year
get_validated_date_MtimeUnchecked(exif_dt, mtime, folder_year, json_data) ==
    LET target_year == IF folder_year # 0 /\ InValidYearRange(folder_year)
                       THEN folder_year ELSE 0
        accepted(dt) == /\ dt # NoDate
                        /\ InValidYearRange(dt.y)
                        /\ (target_year = 0 \/ dt.y = target_year)
    IN  IF json_data.present /\ accepted(json_data.ts) THEN Resolved(json_data.ts, "JSON")
        ELSE IF accepted(exif_dt) THEN Resolved(exif_dt, "EXIF")
        ELSE IF target_year # 0
        THEN Resolved(ReplaceYear(mtime, target_year), "Folder-Override")
        ELSE Resolved(mtime, "FileSystem")

\* (mutant) the sidecar and EXIF dates are not compared with the folder year
get_validated_date_HintNotCompared(exif_dt, mtime, folder_year, json_data) ==
    LET target_year == IF folder_year # 0 /\ InValidYearRange(folder_year)
                       THEN folder_year ELSE 0
        accepted(dt) == /\ dt # NoDate
                        /\ InValidYearRange(dt.y)
    IN  IF json_data.present /\ accepted(json_data.ts) THEN Resolved(json_data.ts, "JSON")
        ELSE IF accepted(exif_dt) THEN Resolved(exif_dt, "EXIF")
        ELSE IF target_year # 0
        THEN Resolved(ReplaceYear(mtime, target_year), "Folder-Override")
        ELSE IF InValidYearRange(mtime.y) THEN Resolved(mtime, "FileSystem")
        ELSE Resolved(Jan1(InvalidYear), "Invalid")

\* ingestor-v1.py get_validated_date(filepath, folder_year, json_data)
get_validated_date(exif_dt, mtime, folder_year, json_data) ==
    LET target_year == IF folder_year # 0 /\ InValidYearRange(folder_year)
                       THEN folder_year ELSE 0
        accepted(dt) == /\ dt # NoDate
                        /\ InValidYearRange(dt.y)
                        /\ (target_year = 0 \/ dt.y = target_year)
    IN  IF json_data.present /\ accepted(json_data.ts) THEN Resolved(json_data.ts, "JSON")
        ELSE IF accepted(exif_dt) THEN Resolved(exif_dt, "EXIF")
        ELSE IF target_year # 0
        THEN Resolved(ReplaceYear(mtime, target_year), "Folder-Override")
        ELSE IF InValidYearRange(mtime.y) THEN Resolved(mtime, "FileSystem")
        ELSE Resolved(Jan1(InvalidYear), "Invalid")

\* the files of the source tree are scans: no EXIF date, no GPS; mtime is 2020-05-17
SrcExifDate(i) == NoDate
SrcHasGps(i) == FALSE
SrcMtime(i) == Date(2020, 5, 17, 1)

----------------------------------------------------------------------------
(* Files, rows and counters *)

NoName == [stem |-> "", paren |-> 0, sfx |-> <<>>]
NoPath == [dir |-> "", name |-> NoName]

CurNone == [sha |-> "", dest |-> NoPath, base |-> NoName, size |-> 0,
            notes |-> NoneVal, thumb |-> FALSE]

ZeroStats == [new_ingested |-> 0, duplicates_skipped |-> 0, metadata_updates |-> 0,
              collisions_skipped |-> 0, errors |-> 0]

Exists(arch, p) == \E f \in arch : f.path = p

BytesAt(arch, p) == {f.bytes : f \in {g \in arch : g.path = p}}

\* shutil.copy2(src, dst): dst is created or overwritten
CopyFile(arch, p, b) == {f \in arch : f.path # p} \cup {[path |-> p, bytes |-> b]}

Bump(st, key) == [st EXCEPT ![key] = @ + 1]

\* history of the run: the step just taken, how many copies into the archive,
\* committed inserts and transient copy failures the run has made so far, and where the
\* run was when a stop was requested ("" when none was)
Step(kind) == [kind |-> kind, slot |-> pos, copies |-> last.copies,
               inserts |-> last.inserts, faults |-> last.faults, stopAt |-> last.stopAt]

----------------------------------------------------------------------------
(* ingest-photos.py *)

\* get_sha1: the digest of the bytes; raises when the file cannot be opened
get_sha1(f) == IF f.readable THEN [ok |-> TRUE, sha |-> Digest(f.bytes)]
               ELSE [ok |-> FALSE, sha |-> ""]

\* (mutant) the duplicate lookup never finds a row
FindBySha1_Miss(idx, h) == {}

\* SELECT rel_fqn, takeout_notes FROM media WHERE sha1=?
FindBySha1(idx, h) == {r \in idx : r.sha = h}

\* virt_dir / file under DEST_ROOT
IngestDestPath(i) == [dir |-> "pictures/1998/" \o SrcFolder(i), name |-> RawName(i)]

\* (mutant) fusion without the "record has no notes" test
ShouldFuse_Overwrite(desc, notes) == Truthy(desc)

\* the fusion test of the duplicate branch
ShouldFuse(desc, notes) == Truthy(desc) /\ ~Truthy(notes)

\* (mutant) the duplicate branch writes the row anew (INSERT OR REPLACE) instead of
\* updating its notes
UpdateNotes_Replace(idx, h, d) ==
    {IF r.sha = h
     THEN [r EXCEPT !.notes = d, !.custom_notes = "", !.custom_tags = "",
                    !.is_deleted = 0, !.is_favorite = 0]
     ELSE r : r \in idx}

\* UPDATE media SET takeout_notes=? WHERE sha1=?
UpdateNotes(idx, h, d) == {IF r.sha = h THEN [r EXCEPT !.notes = d] ELSE r : r \in idx}

\* dt, source = determine_best_date(src_path, folder_year) for the file of slot i
IngestBestDate(i) == determine_best_date(SrcExifDate(i), SrcMtime(i), SrcPathYear(i))

\* a row of the media table as the INSERT of run_ingestor writes it; the INSERT does not
\* name the curation columns, which take the defaults of CREATE TABLE media
MediaRow(sha, path, name, best, notes, thumb) ==
    [sha |-> sha, path |-> path, name |-> name, size |-> 0,
     final_dt |-> best.dt, dt_source |-> best.label, notes |-> notes,
     thumb |-> thumb, custom_notes |-> "", custom_tags |-> "",
     is_deleted |-> 0, is_favorite |-> 0]

\* the media table's PRIMARY KEY (sha1)
MediaKeyFree(rows, h) == \A r \in rows : r.sha # h

Remember(h, d) == IF Truthy(d) /\ ~Truthy(seen[h]) THEN [seen EXCEPT ![h] = d] ELSE seen

NextFile == /\ pos' = pos + 1
            /\ pc' = "walk"
            /\ cur' = CurNone

\* one iteration of the file loop up to the duplicate check
IngestBegin ==
    /\ program = "ingest" /\ pc = "walk" /\ pos \in Slots
    /\ atItem' = [index |-> index, archive |-> archive]
    /\ LET f == src[pos]
           h == get_sha1(f)
           existing == FindBySha1(index, h.sha)
       IN  IF ~h.ok
           THEN /\ stats' = Bump(stats, "errors")
                /\ last' = Step("hash_error")
                /\ NextFile
                /\ UNCHANGED <<index, seen>>
           ELSE IF existing # {}
           THEN LET row == CHOOSE r \in existing : TRUE
                IN  /\ IF ShouldFuse(f.desc, row.notes)
                       THEN /\ index' = UpdateNotes(index, h.sha, f.desc)
                            /\ stats' = Bump(Bump(stats, "duplicates_skipped"), "metadata_updates")
                            /\ last' = Step("merged")
                       ELSE /\ index' = index
                            /\ stats' = Bump(stats, "duplicates_skipped")
                            /\ last' = Step("duplicate")
                    /\ seen' = Remember(h.sha, f.desc)
                    /\ NextFile
           ELSE /\ cur' = [CurNone EXCEPT !.sha = h.sha, !.dest = IngestDestPath(pos),
                                          !.base = RawName(pos), !.notes = f.desc]
                /\ pc' = "copy"
                /\ pos' = pos
                /\ last' = Step("new")
                /\ UNCHANGED <<index, stats, seen>>
    /\ UNCHANGED <<rest, program, src, archive, thumbs, pending, runs, envs, atStart>>

\* shutil.copy2(src_path, dest_path) succeeds
IngestCopy ==
    /\ program = "ingest" /\ pc = "copy"
    /\ archive' = CopyFile(archive, cur.dest, src[pos].bytes)
    /\ pc' = "thumb"
    /\ last' = [Step("copied") EXCEPT !.copies = @ + 1]
    /\ UNCHANGED <<rest, program, src, thumbs, index, pending, pos, cur, stats, runs, envs,
                   atStart, atItem, seen>>

\* (mutant) the copy error is swallowed and the item goes on to be recorded
IngestCopyFail_Swallowed ==
    /\ program = "ingest" /\ pc = "copy"
    /\ pc' = "thumb"
    /\ last' = [Step("copy_failed") EXCEPT !.faults = @ + 1]
    /\ UNCHANGED <<rest, program, src, archive, thumbs, index, pending, pos, cur, stats, runs,
                   envs, atStart, atItem, seen>>

\* shutil.copy2 raises: the except clause of the loop body
IngestCopyFail ==
    /\ program = "ingest" /\ pc = "copy"
    /\ stats' = Bump(stats, "errors")
    /\ last' = [Step("copy_failed") EXCEPT !.faults = @ + 1]
    /\ NextFile
    /\ UNCHANGED <<rest, program, src, archive, thumbs, index, pending, runs, envs,
                   atStart, atItem, seen>>

\* (mutant) a thumbnail that cannot be made is an error of the item, which is skipped
IngestThumb_FailureIsError ==
    /\ program = "ingest" /\ pc = "thumb"
    /\ LET ok == \A b \in BytesAt(archive, cur.dest) : Decodable(b)
       IN  IF ok
           THEN /\ thumbs' = thumbs \cup {cur.sha}
                /\ cur' = [cur EXCEPT !.thumb = TRUE]
                /\ pc' = "insert"
                /\ last' = Step("thumb")
                /\ UNCHANGED <<pos, stats>>
           ELSE /\ stats' = Bump(stats, "errors")
                /\ last' = Step("thumb_failed")
                /\ NextFile
                /\ UNCHANGED thumbs
    /\ UNCHANGED <<rest, program, src, archive, index, pending, runs, envs,
                   atStart, atItem, seen>>

\* thumbnail of the copied image; any failure leaves has_thumb = 0
IngestThumb ==
    /\ program = "ingest" /\ pc = "thumb"
    /\ LET ok == \A b \in BytesAt(archive, cur.dest) : Decodable(b)
       IN  /\ thumbs' = IF ok THEN thumbs \cup {cur.sha} ELSE thumbs
           /\ cur' = [cur EXCEPT !.thumb = ok]
    /\ pc' = "insert"
    /\ last' = Step("thumb")
    /\ UNCHANGED <<rest, program, src, archive, index, pending, pos, stats, runs, envs,
                   atStart, atItem, seen>>

IngestRow == MediaRow(cur.sha, cur.dest, cur.base, IngestBestDate(pos), cur.notes, cur.thumb)

\* INSERT INTO media ...: the row joins the open transaction, or the key is taken
IngestInsert ==
    /\ program = "ingest" /\ pc = "insert"
    /\ IF MediaKeyFree(index \cup pending, cur.sha)
       THEN /\ pending' = pending \cup {IngestRow}
            /\ pc' = "commit"
            /\ last' = Step("inserted")
            /\ UNCHANGED <<pos, cur, stats>>
       ELSE /\ stats' = Bump(stats, "errors")
            /\ last' = Step("insert_failed")
            /\ NextFile
            /\ UNCHANGED pending
    /\ UNCHANGED <<rest, program, src, archive, thumbs, index, runs, envs, atStart, atItem, seen>>

\* (mutant) the item is counted but conn.commit() is never called
IngestCommit_NoCommit ==
    /\ program = "ingest" /\ pc = "commit"
    /\ stats' = Bump(stats, "new_ingested")
    /\ last' = Step("committed")
    /\ NextFile
    /\ UNCHANGED <<rest, program, src, archive, thumbs, index, pending, runs, envs,
                   atStart, atItem, seen>>

\* conn.commit() and the new_ingested count
IngestCommit ==
    /\ program = "ingest" /\ pc = "commit"
    /\ index' = index \cup pending
    /\ pending' = {}
    /\ stats' = Bump(stats, "new_ingested")
    /\ seen' = Remember(cur.sha, cur.notes)
    /\ last' = [Step("committed") EXCEPT !.inserts = @ + 1]
    /\ NextFile
    /\ UNCHANGED <<rest, program, src, archive, thumbs, runs, envs, atStart, atItem>>

----------------------------------------------------------------------------
(* gather-pictures.py *)

\* get_sha256: the digest, or the string "ERROR" when the file cannot be read
get_sha256(f) == IF f.readable THEN Digest(f.bytes) ELSE "ERROR"

\* re.sub(r'\((\d+)\)', r'_\1', raw_base_name), then the parent folder is prepended
GatherBaseName(i) ==
    LET raw == RawName(i)
    IN  [stem |-> SrcFolder(i) \o "_" \o raw.stem,
         paren |-> 0,
         sfx |-> IF raw.paren > 0 THEN <<raw.paren>> \o raw.sfx ELSE raw.sfx]

\* (mutant) the EXIF date is tested before the path year
GatherFinalDate_ExifFirst(path_year, exif_date, has_gps, fs_date) ==
    IF exif_date # NoDate THEN exif_date
    ELSE IF path_year # 0 THEN Jan1(path_year)
    ELSE fs_date

\* the date that names the target directory and prefixes the file name
GatherFinalDate(path_year, exif_date, has_gps, fs_date) ==
    IF path_year # 0 /\ exif_date # NoDate /\ ~has_gps
    THEN Jan1(path_year)
    ELSE IF exif_date # NoDate THEN exif_date
    ELSE IF path_year # 0 THEN Jan1(path_year)
    ELSE fs_date

Pad2(n) == IF n < 10 THEN "0" \o ToString(n) ELSE ToString(n)

\* target_dir and the P<date>-<gps>-<base_name> file name, with probe suffix `sfx`
GatherTarget(i, sfx) ==
    LET fd == GatherFinalDate(SrcPathYear(i), SrcExifDate(i), SrcHasGps(i), SrcMtime(i))
        base == GatherBaseName(i)
        ys == ToString(fd.y)
    IN  [dir |-> "Y" \o ys \o "/Y" \o ys \o "M" \o Pad2(fd.m),
         name |-> [stem |-> "P" \o ys \o "-" \o Pad2(fd.m) \o "-" \o Pad2(fd.d)
                            \o "-+00.0000+000.0000-" \o base.stem,
                   paren |-> 0,
                   sfx |-> base.sfx \o sfx]]

\* SELECT dest_path FROM dest_files WHERE sha256=? AND size=?
FindByShaSize(idx, h, size) == {r \in idx : r.sha = h /\ r.size = size}

\* SELECT size FROM dest_files WHERE dest_path=?
FindByPath(idx, p) == {r \in idx : r.path = p}

\* the while True loop: the free target path, or the name-and-size skip
RECURSIVE Probe(_, _, _, _, _)
Probe(idx, i, size, target, counter) ==
    LET rows == FindByPath(idx, target)
    IN  IF rows = {} THEN [skip |-> FALSE, path |-> target]
        ELSE IF size = (CHOOSE r \in rows : TRUE).size
             THEN [skip |-> TRUE, path |-> target]
        ELSE Probe(idx, i, size, GatherTarget(i, <<counter>>), counter + 1)

\* the dest_files table's PRIMARY KEY (dest_path)
DestKeyFree(rows, p) == \A r \in rows : r.path # p

\* one iteration of the file loop of main: the test of the stop flag, then process_file
\* up to the copy: the duplicate check and the name probe
GatherBegin ==
    /\ program = "gather" /\ pc = "walk" /\ pos \in Slots
    /\ ~stop_requested
    /\ atItem' = [index |-> index, archive |-> archive]
    /\ LET f == src[pos]
           size == SizeOf(f.bytes)
           sha256 == get_sha256(f)
           probe == Probe(index, pos, size, GatherTarget(pos, <<>>), 1)
       IN  IF FindByShaSize(index, sha256, size) # {}
           THEN /\ stats' = Bump(stats, "duplicates_skipped")
                /\ last' = Step("duplicate")
                /\ NextFile
           ELSE IF probe.skip
           THEN /\ stats' = Bump(stats, "collisions_skipped")
                /\ last' = Step("collision")
                /\ NextFile
           ELSE /\ cur' = [CurNone EXCEPT !.sha = sha256, !.dest = probe.path,
                                          !.base = GatherBaseName(pos), !.size = size]
                /\ pc' = "copy"
                /\ pos' = pos
                /\ last' = Step("new")
                /\ UNCHANGED stats
    /\ UNCHANGED <<rest, program, src, archive, thumbs, index, pending, runs, envs, atStart, seen>>

\* shutil.copy2(source_path, target_path) succeeds
GatherCopy ==
    /\ program = "gather" /\ pc = "copy"
    /\ src[pos].readable
    /\ archive' = CopyFile(archive, cur.dest, src[pos].bytes)
    /\ pc' = "insert"
    /\ last' = [Step("copied") EXCEPT !.copies = @ + 1]
    /\ UNCHANGED <<rest, program, src, thumbs, index, pending, pos, cur, stats, runs, envs,
                   atStart, atItem, seen>>

\* (mutant) a failed copy is not counted
GatherCopyFail_Uncounted ==
    /\ program = "gather" /\ pc = "copy"
    /\ last' = [Step("copy_failed") EXCEPT !.faults = IF src[pos].readable THEN @ + 1 ELSE @]
    /\ NextFile
    /\ UNCHANGED <<rest, program, src, archive, thumbs, index, pending, stats, runs, envs,
                   atStart, atItem, seen>>

\* shutil.copy2 raises: process_file returns "ERRORS"
GatherCopyFail ==
    /\ program = "gather" /\ pc = "copy"
    /\ stats' = Bump(stats, "errors")
    /\ last' = [Step("copy_failed") EXCEPT !.faults = IF src[pos].readable THEN @ + 1 ELSE @]
    /\ NextFile
    /\ UNCHANGED <<rest, program, src, archive, thumbs, index, pending, runs, envs,
                   atStart, atItem, seen>>

GatherRow == [sha |-> cur.sha, path |-> cur.dest, name |-> cur.base, size |-> cur.size,
              notes |-> NoneVal, thumb |-> FALSE]

\* INSERT INTO dest_files ...: the row joins the open transaction, or the key is taken
GatherInsert ==
    /\ program = "gather" /\ pc = "insert"
    /\ IF DestKeyFree(index \cup pending, cur.dest)
       THEN /\ pending' = pending \cup {GatherRow}
            /\ pc' = "commit"
            /\ last' = Step("inserted")
            /\ UNCHANGED <<pos, cur, stats>>
       ELSE /\ stats' = Bump(stats, "errors")
            /\ last' = Step("insert_failed")
            /\ NextFile
            /\ UNCHANGED pending
    /\ UNCHANGED <<rest, program, src, archive, thumbs, index, runs, envs, atStart, atItem, seen>>

\* conn.commit(); process_file returns "COPIED"
GatherCommit ==
    /\ program = "gather" /\ pc = "commit"
    /\ index' = index \cup pending
    /\ pending' = {}
    /\ stats' = Bump(stats, "new_ingested")
    /\ last' = [Step("committed") EXCEPT !.inserts = @ + 1]
    /\ NextFile
    /\ UNCHANGED <<rest, program, src, archive, thumbs, runs, envs, atStart, atItem, seen>>

----------------------------------------------------------------------------
(* Runs, interruption and the world outside the program *)

Between == pc \in {"idle", "done", "crashed", "stopped"}

\* the script is started: setup, zeroed stats, the walk begins at the first file
StartRun ==
    /\ Between /\ runs < MaxRuns
    /\ pc' = "walk"
    /\ pos' = 1
    /\ cur' = CurNone
    /\ pending' = {}
    /\ stats' = ZeroStats
    /\ runs' = runs + 1
    /\ atStart' = [index |-> index, archive |-> archive, envs |-> envs,
                   rerun |-> (pc = "done" /\ envs = atStart.envs /\ stats.errors = 0),
                   resumed |-> (pc = "crashed" /\ envs = atStart.envs),
                   faults |-> IF pc = "crashed" /\ envs = atStart.envs
                              THEN atStart.faults + last.faults
                              ELSE 0,
                   origin |-> IF pc = "crashed" /\ envs = atStart.envs
                              THEN atStart.origin
                              ELSE [index |-> index, archive |-> archive]]
    /\ atItem' = [index |-> index, archive |-> archive]
    /\ last' = [kind |-> "start", slot |-> 0, copies |-> 0, inserts |-> 0, faults |-> 0,
                stopAt |-> ""]
    /\ stop_requested' = FALSE
    /\ UNCHANGED <<aside, program, src, archive, thumbs, index, envs, seen>>

\* the walk is exhausted: the summary is printed
Finish ==
    /\ pc = "walk" /\ pos > NFiles
    /\ pc' = "done"
    /\ last' = Step("summary")
    /\ UNCHANGED <<rest, program, src, archive, thumbs, index, pending, pos, cur, stats,
                   runs, envs, atStart, atItem, seen>>

\* the process is killed: the open transaction is rolled back, files stay as written
Crash ==
    /\ pc \in {"walk", "copy", "thumb", "insert", "commit"}
    /\ pc' = "crashed"
    /\ pending' = {}
    /\ cur' = CurNone
    /\ last' = Step("crash")
    /\ UNCHANGED <<rest, program, src, archive, thumbs, index, pos, stats, runs, envs,
                   atStart, atItem, seen>>

\* signal_handler: Ctrl+C while gather-pictures.py runs sets the flag, nothing else
RequestStop ==
    /\ program = "gather"
    /\ pc \in {"walk", "copy", "insert", "commit"}
    /\ ~stop_requested
    /\ stop_requested' = TRUE
    /\ last' = [last EXCEPT !.stopAt = pc]
    /\ UNCHANGED <<aside, program, src, archive, thumbs, index, pending, pc, pos, cur, stats,
                   runs, envs, atStart, atItem, seen>>

\* (mutant) the flag is honoured wherever the run is
StopBreak_MidFile ==
    /\ program = "gather"
    /\ pc \in {"walk", "copy", "insert", "commit"}
    /\ stop_requested
    /\ pc' = "stopped"
    /\ pending' = {}
    /\ last' = Step("stop")
    /\ UNCHANGED <<rest, program, src, archive, thumbs, index, pos, cur, stats,
                   runs, envs, atStart, atItem, seen>>

\* "if stop_requested: break" at the head of the file loop: the walk ends, the
\* connection is closed and the summary is printed
StopBreak ==
    /\ program = "gather"
    /\ pc = "walk" /\ pos \in Slots
    /\ stop_requested
    /\ pc' = "stopped"
    /\ last' = Step("stop")
    /\ UNCHANGED <<rest, program, src, archive, thumbs, index, pending, pos, cur, stats,
                   runs, envs, atStart, atItem, seen>>

\* between runs a source file is replaced by other bytes
EnvModify ==
    /\ Between /\ envs < MaxEnv
    /\ \E i \in Slots, c \in Contents :
          /\ c # src[i].bytes
          /\ src' = [src EXCEPT ![i].bytes = c]
    /\ envs' = envs + 1
    /\ UNCHANGED <<rest, program, archive, thumbs, index, pending, pc, pos, cur, stats, runs,
                   atStart, atItem, last, seen>>

\* between runs a source file becomes unreadable
EnvLock ==
    /\ Between /\ envs < MaxEnv
    /\ \E i \in Slots :
          /\ src[i].readable
          /\ src' = [src EXCEPT ![i].readable = FALSE]
    /\ envs' = envs + 1
    /\ UNCHANGED <<rest, program, archive, thumbs, index, pending, pc, pos, cur, stats, runs,
                   atStart, atItem, last, seen>>

\* between runs a file of the archive is deleted from disk
EnvDelete ==
    /\ Between /\ envs < MaxEnv
    /\ \E f \in archive : archive' = archive \ {f}
    /\ envs' = envs + 1
    /\ UNCHANGED <<rest, program, src, thumbs, index, pending, pc, pos, cur, stats, runs,
                   atStart, atItem, last, seen>>

\* the curation columns of the media table and the values the browsing layer sets
CurationValues == [custom_notes |-> "kept", custom_tags |-> "family",
                   is_deleted |-> 1, is_favorite |-> 1]

\* between runs the browsing layer sets one curation column of one row
EnvCurate ==
    /\ Between /\ envs < MaxEnv
    /\ program = "ingest"
    /\ \E r \in index, col \in DOMAIN CurationValues :
          /\ r[col] # CurationValues[col]
          /\ index' = (index \ {r}) \cup {[r EXCEPT ![col] = CurationValues[col]]}
    /\ envs' = envs + 1
    /\ UNCHANGED <<rest, program, src, archive, thumbs, pending, pc, pos, cur, stats, runs,
                   atStart, atItem, last, seen>>

\* no date resolution is in progress, no hero selection, an empty composite cache
DrNone == [by |-> "", in |-> <<>>, out |-> <<>>, out2 |-> <<>>]
HsNone == [by |-> "", photos |-> <<>>, clusters |-> {}, out |-> <<>>]
CcNone == [entries |-> {}, asked |-> {}]
RoNone == [files |-> <<>>, thumbs |-> {}, last |-> ""]
SuNone == [by |-> "", in |-> <<>>, out |-> <<>>]
PtNone == [by |-> "", rel_path |-> <<>>, out |-> <<>>]
PbNone == [state |-> "", index |-> {}, size |-> 0, counter |-> 0, target |-> NoPath]

AllDigests == {Digest(c) : c \in Contents} \cup {"ERROR"}

\* nothing has run yet: empty destination, no index rows
PipelineStart ==
    /\ archive = {}
    /\ thumbs = {}
    /\ index = {}
    /\ pending = {}
    /\ pc = "idle"
    /\ pos = 1
    /\ cur = CurNone
    /\ stats = ZeroStats
    /\ runs = 0
    /\ envs = 0
    /\ atStart = [index |-> {}, archive |-> {}, envs |-> 0, rerun |-> FALSE,
                  resumed |-> FALSE, faults |-> 0,
                  origin |-> [index |-> {}, archive |-> {}]]
    /\ atItem = [index |-> {}, archive |-> {}]
    /\ last = [kind |-> "init", slot |-> 0, copies |-> 0, inserts |-> 0, faults |-> 0,
               stopAt |-> ""]
    /\ seen = [h \in AllDigests |-> NoneVal]
    /\ stop_requested = FALSE

Init ==
    /\ program \in {"ingest", "gather"}
    /\ src \in [Slots -> [bytes : Contents, readable : {TRUE},
                          desc : IF program = "ingest" THEN Descs ELSE {NoneVal}]]
    /\ PipelineStart
    /\ dr = DrNone /\ hs = HsNone /\ cc = CcNone
    /\ ro = RoNone /\ su = SuNone /\ pt = PtNone /\ pb = PbNone

Next ==
    \/ StartRun
    \/ IngestBegin
    \/ IngestCopy
    \/ IngestCopyFail
    \/ IngestThumb
    \/ IngestInsert
    \/ IngestCommit
    \/ GatherBegin
    \/ GatherCopy
    \/ GatherCopyFail
    \/ GatherInsert
    \/ GatherCommit
    \/ Finish
    \/ Crash
    \/ EnvModify
    \/ EnvLock
    \/ EnvDelete
    \/ EnvCurate

Spec == Init /\ [][Next]_vars

----------------------------------------------------------------------------
(* gather-pictures.py with stop requests: the process is not killed, and it goes on    *)
(* running as long as it has a step to take                                           *)

StopInit == Init /\ program = "gather"

\* the steps of the running script
GatherStep ==
    \/ GatherBegin
    \/ GatherCopy
    \/ GatherCopyFail
    \/ GatherInsert
    \/ GatherCommit
    \/ StopBreak
    \/ Finish

StopNext ==
    \/ StartRun
    \/ GatherBegin
    \/ GatherCopy
    \/ GatherCopyFail
    \/ GatherInsert
    \/ GatherCommit
    \/ StopBreak
    \/ Finish
    \/ RequestStop

StopSpec == StopInit /\ [][StopNext]_vars /\ WF_vars(GatherStep)

----------------------------------------------------------------------------
(* One uninterrupted, fault-free run as a function of the state it starts in *)

IngestItem(st, i) ==
    LET f == src[i]
        h == get_sha1(f)
        existing == FindBySha1(st.index, h.sha)
    IN  IF ~h.ok THEN st
        ELSE IF existing # {}
        THEN IF ShouldFuse(f.desc, (CHOOSE r \in existing : TRUE).notes)
             THEN [st EXCEPT !.index = UpdateNotes(st.index, h.sha, f.desc)]
             ELSE st
        ELSE IF ~MediaKeyFree(st.index, h.sha) THEN st
        ELSE [index |-> st.index \cup {MediaRow(h.sha, IngestDestPath(i), RawName(i),
                                                 IngestBestDate(i), f.desc,
                                                 Decodable(f.bytes))},
              archive |-> CopyFile(st.archive, IngestDestPath(i), f.bytes)]

GatherItem(st, i) ==
    LET f == src[i]
        size == SizeOf(f.bytes)
        sha256 == get_sha256(f)
        probe == Probe(st.index, i, size, GatherTarget(i, <<>>), 1)
    IN  IF FindByShaSize(st.index, sha256, size) # {} THEN st
        ELSE IF probe.skip THEN st
        ELSE IF ~f.readable THEN st
        ELSE IF ~DestKeyFree(st.index, probe.path) THEN st
        ELSE [index |-> st.index \cup {[sha |-> sha256, path |-> probe.path,
                                        name |-> GatherBaseName(i), size |-> size,
                                        notes |-> NoneVal, thumb |-> FALSE]},
              archive |-> CopyFile(st.archive, probe.path, f.bytes)]

RECURSIVE FullRun(_, _)
FullRun(st, i) ==
    IF i > NFiles THEN st
    ELSE FullRun(IF program = "ingest" THEN IngestItem(st, i) ELSE GatherItem(st, i), i + 1)

----------------------------------------------------------------------------
(* The date resolvers applied to one file *)

\* the pipelines stay as they are before their first run
PipelineIdle ==
    /\ program = "ingest"
    /\ src = [i \in Slots |-> [bytes |-> 1, readable |-> TRUE, desc |-> NoneVal]]
    /\ PipelineStart

\* the year matched in the directory path (0: none; the pattern admits 1950 to 2029)
DrFolderYears == {0, 1998, 2028}

\* DateTimeOriginal of the file: none, in the folder year, in another valid year, a
\* year outside the valid range
DrExifDates == {NoDate, Date(1998, 7, 4, 1), Date(2005, 3, 9, 1), Date(1930, 6, 1, 1)}

\* mtime of the file: in the folder year, in another valid year, a leap day, outside
\* the range
DrMtimes == {Date(1998, 2, 3, 1), Date(2010, 8, 9, 1), Date(2020, 2, 29, 1),
             Date(2031, 6, 1, 1)}

\* the sidecar: none, a timestamp in the folder year, in another valid year, no
\* photoTakenTime at all, a timestamp that does not parse
DrSidecars == {NoSidecar, Sidecar(Date(1998, 7, 1, 1)), Sidecar(Date(2005, 3, 8, 1)),
               Sidecar(Epoch), Sidecar(NoDate)}

\* one file, and a second file that differs from it in its mtime only
DrInputs == [folder_year : DrFolderYears, exif : DrExifDates, sidecar : DrSidecars,
             mtime : DrMtimes, mtime2 : DrMtimes, has_gps : BOOLEAN, undated : BOOLEAN]

DateInit ==
    /\ PipelineIdle
    /\ dr \in {[by |-> "", in |-> x, out |-> <<>>, out2 |-> <<>>] : x \in DrInputs}
    /\ hs = HsNone /\ cc = CcNone
    /\ ro = RoNone /\ su = SuNone /\ pt = PtNone /\ pb = PbNone

\* run_ingestor of ingest-photos.py resolves the date of both files; the sidecar is
\* loaded but not handed to the resolver
ResolveIngestPhotos ==
    /\ dr.by = ""
    /\ dr' = [dr EXCEPT
                !.by = "ingest-photos",
                !.out = determine_best_date(dr.in.exif, dr.in.mtime, dr.in.folder_year),
                !.out2 = determine_best_date(dr.in.exif, dr.in.mtime2, dr.in.folder_year)]
    /\ UNCHANGED <<pipeline, hs, cc, ro, su, pt, pb>>

\* run_ingestor of ingestor-v1.py resolves the date of both files
ResolveIngestorV1 ==
    /\ dr.by = ""
    /\ dr' = [dr EXCEPT
                !.by = "ingestor-v1",
                !.out = get_validated_date(dr.in.exif, dr.in.mtime, dr.in.folder_year,
                                           dr.in.sidecar),
                !.out2 = get_validated_date(dr.in.exif, dr.in.mtime2, dr.in.folder_year,
                                            dr.in.sidecar)]
    /\ UNCHANGED <<pipeline, hs, cc, ro, su, pt, pb>>

\* process_file of gather-pictures.py computes final_date of both files; it keeps no
\* label
ResolveGather ==
    /\ dr.by = ""
    /\ dr' = [dr EXCEPT
                !.by = "gather",
                !.out = Resolved(GatherFinalDate(dr.in.folder_year, dr.in.exif,
                                                 dr.in.has_gps, dr.in.mtime), ""),
                !.out2 = Resolved(GatherFinalDate(dr.in.folder_year, dr.in.exif,
                                                  dr.in.has_gps, dr.in.mtime2), "")]
    /\ UNCHANGED <<pipeline, hs, cc, ro, su, pt, pb>>

DateNext ==
    \/ ResolveIngestPhotos
    \/ ResolveIngestorV1
    \/ ResolveGather

DateSpec == DateInit /\ [][DateNext]_vars

----------------------------------------------------------------------------
(* Hero selection: web-builder.py get_16_heroes, archive-backend.py and             *)
(* new-website-generator.py get_heroes                                             *)

\* the largest collection of the model
MaxItems == 40

\* the number of heroes of a card
HeroCount == 16

Min(a, b) == IF a < b THEN a ELSE b

\* the k-th smallest element of a set of numbers, counting from 0
NthOf(S, k) == CHOOSE e \in S : Cardinality({x \in S : x < e}) = k

\* sorted(list(S))
RECURSIVE Sorted(_)
Sorted(S) ==
    IF S = {} THEN <<>>
    ELSE LET least == CHOOSE e \in S : \A x \in S : e <= x
         IN  <<least>> \o Sorted(S \ {least})

\* the first k elements of a list: list[:k]
Take(list, k) == SubSeq(list, 1, Min(k, Len(list)))

\* int(i * step) for step = max(1.0, len / count): the quotient is a float, and the
\* product has the integer part of i * len / count for the lists of the model
StepIndex(i, len, count) == IF len >= count THEN (i * len) \div count ELSE i

\* (mutant) the short-list test is missing
get_heroes_NoShortList(photo_list, count) ==
    IF photo_list = <<>> THEN <<>>
    ELSE [i \in 1..count |->
             photo_list[((i - 1) * Len(photo_list)) \div count + 1]]

\* get_heroes(photo_list, count=16) of archive-backend.py and new-website-generator.py
get_heroes(photo_list, count) ==
    IF photo_list = <<>> THEN <<>>
    ELSE IF Len(photo_list) <= count THEN photo_list
    ELSE [i \in 1..count |->
             photo_list[((i - 1) * Len(photo_list)) \div count + 1]]

\* (mutant) the sampling step is an integer
get_16_heroes_IntStep(photos_list, clusters) ==
    LET n == Len(photos_list)
    IN  IF n <= HeroCount THEN photos_list
        ELSE [i \in 1..HeroCount |-> photos_list[(i - 1) * (n \div HeroCount) + 1]]

\* (mutant) a cluster is represented by its first member
get_16_heroes_FirstOfCluster(photos_list, clusters) ==
    LET n == Len(photos_list)
    IN  IF n = 0 THEN <<>>
        ELSE IF n <= HeroCount THEN photos_list
        ELSE LET from_clusters == {NthOf(c, 0) : c \in clusters \ {{}}}
                 remaining_count == HeroCount - Cardinality(from_clusters)
                 unselected == (0..(n - 1)) \ from_clusters
                 len == Cardinality(unselected)
                 sampled == IF remaining_count > 0 /\ len > 0
                            THEN {NthOf(unselected, StepIndex(i, len, remaining_count)) :
                                     i \in {j \in 0..(remaining_count - 1) :
                                               StepIndex(j, len, remaining_count) < len}}
                            ELSE {}
                 final_indices == Take(Sorted(from_clusters \cup sampled), HeroCount)
             IN  [k \in 1..Len(final_indices) |-> photos_list[final_indices[k] + 1]]

\* get_16_heroes(photos_list) of web-builder.py; `clusters` is what the centroid
\* iteration leaves: disjoint sets of the indices of the photos that carry coordinates
get_16_heroes(photos_list, clusters) ==
    LET n == Len(photos_list)
    IN  IF n = 0 THEN <<>>
        ELSE IF n <= HeroCount THEN photos_list
        ELSE LET from_clusters == {NthOf(c, Cardinality(c) \div 2) : c \in clusters \ {{}}}
                 remaining_count == HeroCount - Cardinality(from_clusters)
                 unselected == (0..(n - 1)) \ from_clusters
                 len == Cardinality(unselected)
                 sampled == IF remaining_count > 0 /\ len > 0
                            THEN {NthOf(unselected, StepIndex(i, len, remaining_count)) :
                                     i \in {j \in 0..(remaining_count - 1) :
                                               StepIndex(j, len, remaining_count) < len}}
                            ELSE {}
                 final_indices == Take(Sorted(from_clusters \cup sampled), HeroCount)
             IN  [k \in 1..Len(final_indices) |-> photos_list[final_indices[k] + 1]]

\* a collection of n photos: the photo at index i is named by 100 + i
PhotoList(n) == [k \in 1..n |-> 100 + (k - 1)]

\* the photos at every a-th index carry coordinates and fall into k clusters by turns;
\* all photos carry coordinates and fall into k clusters of neighbours
HsByTurns(n, a, k) ==
    {{i \in 0..(n - 1) : i % a = 0 /\ (i \div a) % k = c} : c \in 0..(k - 1)} \ {{}}
HsByBlocks(n, k) ==
    {{i \in 0..(n - 1) : (i * k) \div n = c} : c \in 0..(k - 1)} \ {{}}

\* the clusters of the model for a collection of n photos: none (no photo carries
\* coordinates), all photos in one, one photo each for the first 16, even and odd
\* indices, and up to 16 clusters by turns and by blocks
HsClusterings(n) ==
    {  {},
       {0..(n - 1)} \ {{}},
       {{i} : i \in 0..(Min(n, HeroCount) - 1)},
       {{i \in 0..(n - 1) : i % 2 = 0}, {i \in 0..(n - 1) : i % 2 = 1}} \ {{}}  }
    \cup {HsByTurns(n, a, k) : a \in 1..3, k \in 1..HeroCount}
    \cup {HsByBlocks(n, k) : k \in 1..HeroCount}

HeroInit ==
    /\ PipelineIdle
    /\ dr = DrNone /\ cc = CcNone
    /\ ro = RoNone /\ su = SuNone /\ pt = PtNone /\ pb = PbNone
    /\ \E n \in 0..MaxItems :
          \E cl \in HsClusterings(n) :
             hs = [by |-> "", photos |-> PhotoList(n), clusters |-> cl, out |-> <<>>]

\* a card of web-builder.py is built
SelectWebBuilder ==
    /\ hs.by = ""
    /\ hs' = [hs EXCEPT !.by = "web-builder",
                        !.out = get_16_heroes(hs.photos, hs.clusters)]
    /\ UNCHANGED <<pipeline, dr, cc, ro, su, pt, pb>>

\* a card of archive-backend.py is built: the photos' coordinates play no part
SelectBackend ==
    /\ hs.by = ""
    /\ hs' = [hs EXCEPT !.by = "archive-backend",
                        !.out = get_heroes(hs.photos, HeroCount)]
    /\ UNCHANGED <<pipeline, dr, cc, ro, su, pt, pb>>

\* a card of new-website-generator.py is built
SelectGenerator ==
    /\ hs.by = ""
    /\ hs' = [hs EXCEPT !.by = "new-website-generator",
                        !.out = get_heroes(hs.photos, HeroCount)]
    /\ UNCHANGED <<pipeline, dr, cc, ro, su, pt, pb>>

HeroNext ==
    \/ SelectWebBuilder
    \/ SelectBackend
    \/ SelectGenerator

HeroSpec == HeroInit /\ [][HeroNext]_vars

----------------------------------------------------------------------------
(* The composite cache, as spec.md 4.7 describes it: ensure(orderedHeroIds)        *)

\* the number of composite requests of the model
MaxRequests == 3

\* the cells of a montage: the key and the canvas take up to the first 16 identities
CompositeCells == 16

\* the content identities of the model
CcIds == {"A", "B", "C"}

\* the concatenation of the identities of a list
RECURSIVE Concat(_)
Concat(ids) == IF ids = <<>> THEN "" ELSE Head(ids) \o Concat(Tail(ids))

\* (mutant) the identities are sorted before they are concatenated
CompositeKey_Sorted(hero_ids) ==
    LET cells == Take(hero_ids, CompositeCells)
    IN  Concat(SelectSeq(cells, LAMBDA x : x = "A")
               \o SelectSeq(cells, LAMBDA x : x = "B")
               \o SelectSeq(cells, LAMBDA x : x = "C"))

\* the cache key: the hash of the concatenation of up to the first 16 identities in the
\* given order; the hash is collision-free and stands as the text it is taken of
CompositeKey(hero_ids) == Concat(Take(hero_ids, CompositeCells))

\* the montage rendered for a list: one cell per constituent, in the order given
RenderComposite(hero_ids) == Take(hero_ids, CompositeCells)

\* the hero lists that are requested: every list of up to three identities, and two
\* lists of 17 that differ in their last identity only
CcLong(x) == [i \in 1..(CompositeCells + 1) |-> IF i > CompositeCells THEN x ELSE "A"]
CcLists == UNION {[1..k -> CcIds] : k \in 0..3} \cup {CcLong("B"), CcLong("C")}

CacheInit ==
    /\ PipelineIdle
    /\ dr = DrNone /\ hs = HsNone
    /\ ro = RoNone /\ su = SuNone /\ pt = PtNone /\ pb = PbNone
    /\ cc = CcNone

\* ensure(orderedHeroIds): an entry of that key is returned as it is, else the montage
\* is rendered and persisted under the key
CompositeEnsure ==
    /\ Cardinality(cc.asked) < MaxRequests
    /\ \E hero_ids \in CcLists \ cc.asked :
          LET key == CompositeKey(hero_ids)
          IN  cc' = [entries |-> IF \E e \in cc.entries : e.key = key
                                THEN cc.entries
                                ELSE cc.entries \cup
                                     {[key |-> key, cells |-> RenderComposite(hero_ids)]},
                     asked |-> cc.asked \cup {hero_ids}]
    /\ UNCHANGED <<pipeline, dr, hs, ro, su, pt, pb>>

CacheNext == CompositeEnsure

CacheSpec == CacheInit /\ [][CacheNext]_vars

----------------------------------------------------------------------------
(* fix-orientation.py and the thumbnails of web-builder.py over one archive directory *)

\* the JPEG files of the archive directory
NPhotos == 3
Photos == 1..NPhotos

\* the EXIF Orientation tags of the model; 0 stands for a file without the tag
OrientationTags == {0, 1, 3, 6, 8}

\* the quarter turns ImageOps.exif_transpose gives the pixels for an Orientation tag
TagTurn(tag) == CASE tag = 3 -> 2
                  [] tag = 6 -> 3
                  [] tag = 8 -> 1
                  [] OTHER -> 0

\* a file: its Orientation tag, the quarter turns its stored pixels have been given, how
\* often it has been rewritten, whether PIL can open it
PhotoFile(tag, ok) == [tag |-> tag, turn |-> 0, rev |-> 0, ok |-> ok]

\* the body of the file loop of fix_orientations: a file that opens and whose tag is
\* neither absent nor 1 is saved anew with its pixels transposed and its tag set to 1
FixFile(f) ==
    IF f.ok /\ f.tag \notin {0, 1}
    THEN [f EXCEPT !.turn = (@ + TagTurn(f.tag)) % 4, !.tag = 1, !.rev = @ + 1]
    ELSE f

\* the picture a viewer that honours the Orientation tag shows of a file
Shown(f) == (f.turn + TagTurn(f.tag)) % 4

\* the thumbnail build_gallery writes for file i: the transposed image, scaled
ThumbOf(i, f) == [photo |-> i, rev |-> f.rev, shows |-> Shown(f)]

HasThumb(ths, i) == \E t \in ths : t.photo = i

RotateInit ==
    /\ PipelineIdle
    /\ dr = DrNone /\ hs = HsNone /\ cc = CcNone
    /\ su = SuNone /\ pt = PtNone /\ pb = PbNone
    /\ \E tags \in [Photos -> OrientationTags], oks \in [Photos -> BOOLEAN] :
          ro = [files |-> [i \in Photos |-> PhotoFile(tags[i], oks[i])],
                thumbs |-> {}, last |-> ""]

\* fix_orientations(TARGET_DIR): every JPEG of the directory tree is visited; nothing but
\* the files themselves is written
FixOrientations ==
    /\ ro.last # "fix"
    /\ ro' = [ro EXCEPT !.files = [i \in Photos |-> FixFile(ro.files[i])],
                        !.last = "fix"]
    /\ UNCHANGED <<pipeline, dr, hs, cc, su, pt, pb>>

\* build_gallery(): a thumbnail is written for every JPEG that has none and opens; a
\* thumbnail that exists is kept as it is
BuildGallery ==
    /\ ro.last # "build"
    /\ ro' = [ro EXCEPT
                !.thumbs = @ \cup {ThumbOf(i, ro.files[i]) :
                                      i \in {j \in Photos : /\ ~HasThumb(ro.thumbs, j)
                                                            /\ ro.files[j].ok}},
                !.last = "build"]
    /\ UNCHANGED <<pipeline, dr, hs, cc, su, pt, pb>>

RotateNext ==
    \/ FixOrientations
    \/ BuildGallery

RotateSpec == RotateInit /\ [][RotateNext]_vars

----------------------------------------------------------------------------
(* The startup of the scripts: gather-pictures.py main, run_ingestor of                 *)
(* ingest-photos.py and of ingestor-v1.py, up to the walk of the source roots          *)

\* the most source roots a script is configured with (SOURCE_PATHS)
MaxRoots == 2

\* no database file; a database file and its tables
NoDb == [file |-> FALSE, tables |-> {}]
Db(tables) == [file |-> TRUE, tables |-> tables]

\* the tables each script creates
TablesOf(by) == CASE by = "gather" -> {"dest_files"}
                  [] by = "ingest-photos" -> {"system_settings", "media"}
                  [] OTHER -> {"photos"}

\* the destination root: a directory, missing but creatable, or out of reach (makedirs
\* and sqlite3.connect raise); below a directory that exists: the _thumbs directory
\* and the database
DestStates(by) ==
    {[root |-> "absent", thumbs |-> FALSE, db |-> NoDb],
     [root |-> "unreachable", thumbs |-> FALSE, db |-> NoDb]}
    \cup [root : {"present"}, thumbs : BOOLEAN, db : {NoDb, Db({}), Db(TablesOf(by))}]

\* gather-pictures.py has one source root (SOURCE_DIR), the ingestors a list
SuInputs ==
    UNION {[by : {by}, sources : [1..n -> BOOLEAN], dest : DestStates(by)] :
              <<by, n>> \in ({"gather"} \X {1})
                            \cup ({"ingest-photos", "ingestor-v1"} \X (1..MaxRoots))}

StartupInit ==
    /\ PipelineIdle
    /\ dr = DrNone /\ hs = HsNone /\ cc = CcNone
    /\ ro = RoNone /\ pt = PtNone /\ pb = PbNone
    /\ su \in {[by |-> "", in |-> x, out |-> <<>>] : x \in SuInputs}

\* what a startup leaves: the destination, the roots it walks, and how it went on
\* ("exit": sys.exit(1), "raised": an exception ended the script, "ran": the walk and
\* the summary)
Started(dest, walked, outcome) == [dest |-> dest, walked |-> walked, outcome |-> outcome]

\* os.makedirs(<directory below the root>, exist_ok=True) and sqlite3.connect with the
\* CREATE TABLE statements of the script
Prepared(by, dest, with_thumbs) ==
    [root |-> "present",
     thumbs |-> dest.thumbs \/ with_thumbs,
     db |-> Db(dest.db.tables \cup TablesOf(by))]

\* main() of gather-pictures.py
GatherStartup ==
    /\ su.by = "" /\ su.in.by = "gather"
    /\ LET in == su.in
       IN  su' = [su EXCEPT
                    !.by = "gather",
                    !.out = IF ~in.sources[1] THEN Started(in.dest, {}, "exit")
                            ELSE IF in.dest.root = "unreachable"
                            THEN Started(in.dest, {}, "raised")
                            ELSE Started(Prepared("gather", in.dest, FALSE), {1}, "ran")]
    /\ UNCHANGED <<pipeline, dr, hs, cc, ro, pt, pb>>

\* os.walk of a root that does not exist yields nothing and raises nothing
Walked(sources) == {i \in DOMAIN sources : sources[i]}

\* run_ingestor() of ingest-photos.py: setup_directories, setup_db, then the roots
IngestPhotosStartup ==
    /\ su.by = "" /\ su.in.by = "ingest-photos"
    /\ LET in == su.in
       IN  su' = [su EXCEPT
                    !.by = "ingest-photos",
                    !.out = IF in.dest.root = "unreachable"
                            THEN Started(in.dest, {}, "raised")
                            ELSE Started(Prepared("ingest-photos", in.dest, TRUE),
                                         Walked(in.sources), "ran")]
    /\ UNCHANGED <<pipeline, dr, hs, cc, ro, pt, pb>>

\* run_ingestor() of ingestor-v1.py: setup_db, then the roots
IngestorV1Startup ==
    /\ su.by = "" /\ su.in.by = "ingestor-v1"
    /\ LET in == su.in
       IN  su' = [su EXCEPT
                    !.by = "ingestor-v1",
                    !.out = IF in.dest.root = "unreachable"
                            THEN Started(in.dest, {}, "raised")
                            ELSE Started(Prepared("ingestor-v1", in.dest, TRUE),
                                         Walked(in.sources), "ran")]
    /\ UNCHANGED <<pipeline, dr, hs, cc, ro, pt, pb>>

StartupNext ==
    \/ GatherStartup
    \/ IngestPhotosStartup
    \/ IngestorV1Startup

StartupSpec == StartupInit /\ [][StartupNext]_vars

----------------------------------------------------------------------------
(* Path tags: extract_path_tags of ingest-photos.py and ingestor-v1.py.  A string is   *)
(* the sequence of its characters.                                                     *)

LowerLetters == <<"a", "b", "c", "d", "e", "f", "g", "h", "i", "j", "k", "l", "m", "n",
                  "o", "p", "q", "r", "s", "t", "u", "v", "w", "x", "y", "z">>
UpperLetters == <<"A", "B", "C", "D", "E", "F", "G", "H", "I", "J", "K", "L", "M", "N",
                  "O", "P", "Q", "R", "S", "T", "U", "V", "W", "X", "Y", "Z">>
DigitChars == <<"0", "1", "2", "3", "4", "5", "6", "7", "8", "9">>

\* the characters of the model in the order of their code points
CodeOrder == <<" ", ",", "-">> \o DigitChars \o UpperLetters \o <<"_">> \o LowerLetters

Occurs(seq, c) == \E i \in 1..Len(seq) : seq[i] = c
IndexIn(seq, c) == CHOOSE i \in 1..Len(seq) : seq[i] = c

IsDigit(c) == Occurs(DigitChars, c)
IsLower(c) == Occurs(LowerLetters, c)
IsUpper(c) == Occurs(UpperLetters, c)
IsAlpha(c) == IsLower(c) \/ IsUpper(c)

\* \w of the re module
IsWord(c) == IsAlpha(c) \/ IsDigit(c) \/ c = "_"

ToUpper(c) == IF IsLower(c) THEN UpperLetters[IndexIn(LowerLetters, c)] ELSE c
ToLower(c) == IF IsUpper(c) THEN LowerLetters[IndexIn(UpperLetters, c)] ELSE c

\* str.lower()
Lower(s) == [i \in 1..Len(s) |-> ToLower(s[i])]

\* str.title(): a letter that follows no letter is put in upper case, every other
\* letter in lower case
Title(s) == [i \in 1..Len(s) |->
                IF ~IsAlpha(s[i]) THEN s[i]
                ELSE IF i = 1 \/ ~IsAlpha(s[i - 1]) THEN ToUpper(s[i])
                ELSE ToLower(s[i])]

\* str.strip(): the blanks at both ends are dropped
RECURSIVE Strip(_)
Strip(s) ==
    IF s = <<>> THEN s
    ELSE IF Head(s) = " " THEN Strip(Tail(s))
    ELSE IF s[Len(s)] = " " THEN Strip(SubSeq(s, 1, Len(s) - 1))
    ELSE s

\* the pattern \b(19[5-9]\d|20[0-2]\d)\b matches s at position k
YearAt(s, k) ==
    /\ k + 3 <= Len(s)
    /\ \/ s[k] = "1" /\ s[k + 1] = "9" /\ s[k + 2] \in {"5", "6", "7", "8", "9"}
       \/ s[k] = "2" /\ s[k + 1] = "0" /\ s[k + 2] \in {"0", "1", "2"}
    /\ IsDigit(s[k + 3])
    /\ (k = 1 \/ ~IsWord(s[k - 1]))
    /\ (k + 3 = Len(s) \/ ~IsWord(s[k + 4]))

\* re.sub(pattern, '', s) from position k on: the matches are cut out, left to right
RECURSIVE StripYears(_, _)
StripYears(s, k) ==
    IF k > Len(s) THEN <<>>
    ELSE IF YearAt(s, k) THEN StripYears(s, k + 4)
    ELSE <<s[k]>> \o StripYears(s, k + 1)

\* re.split(r'[\\/]', rel_path)
RECURSIVE SplitPath(_)
SplitPath(s) ==
    IF \E i \in 1..Len(s) : s[i] \in {"/", "\\"}
    THEN LET k == CHOOSE i \in 1..Len(s) :
                     /\ s[i] \in {"/", "\\"}
                     /\ \A j \in 1..(i - 1) : s[j] \notin {"/", "\\"}
         IN  <<SubSeq(s, 1, k - 1)>> \o SplitPath(SubSeq(s, k + 1, Len(s)))
    ELSE <<s>>

\* the order of str: by the code points of the first characters that differ
RECURSIVE StrLess(_, _)
StrLess(a, b) ==
    IF b = <<>> THEN FALSE
    ELSE IF a = <<>> THEN TRUE
    ELSE IF Head(a) # Head(b)
    THEN IndexIn(CodeOrder, Head(a)) < IndexIn(CodeOrder, Head(b))
    ELSE StrLess(Tail(a), Tail(b))

\* sorted(list(tags))
RECURSIVE SortedStrs(_)
SortedStrs(S) ==
    IF S = {} THEN <<>>
    ELSE LET least == CHOOSE a \in S : \A b \in S \ {a} : StrLess(a, b)
         IN  <<least>> \o SortedStrs(S \ {least})

\* sep.join(list)
RECURSIVE JoinStrs(_, _)
JoinStrs(list, sep) ==
    IF list = <<>> THEN <<>>
    ELSE IF Len(list) = 1 THEN list[1]
    ELSE list[1] \o sep \o JoinStrs(Tail(list), sep)

\* ignore_phrases
IgnorePhrases ==
    { <<"p", "h", "o", "t", "o", "s", " ", "f", "r", "o", "m">>,
      <<"c", "a", "m", "e", "r", "a", " ", "r", "o", "l", "l">>,
      <<"e", "x", "p", "o", "r", "t", "e", "d", " ", "p", "h", "o", "t", "o", "s">>,
      <<"t", "a", "k", "e", "o", "u", "t">>,
      <<"o", "r", "i", "g", "i", "n", "a", "l", " ", "i", "m", "a", "g", "e", "s">>,
      <<"s", "a", "v", "e", "d", " ", "p", "i", "c", "t", "u", "r", "e", "s">>,
      <<"d", "c", "i", "m">>,
      <<"u", "p", "l", "o", "a", "d", "s">>,
      <<"i", "m", "a", "g", "e", "s">>,
      <<"p", "i", "c", "t", "u", "r", "e", "s">> }

\* the least length of a tag
MinTagLen == 4

\* the test of the folder loop
Kept(clean_name) ==
    Len(clean_name) >= MinTagLen /\ Lower(clean_name) \notin IgnorePhrases

\* extract_path_tags(rel_path)
extract_path_tags(rel_path) ==
    LET folders == SplitPath(rel_path)
        clean_name(folder) == Strip(StripYears(folder, 1))
        tags == {Title(clean_name(folders[i])) :
                    i \in {j \in 1..Len(folders) : Kept(clean_name(folders[j]))}}
    IN  JoinStrs(SortedStrs(tags), <<",", " ">>)

\* path_tags.split(','), each part stripped, the empty parts dropped: how
\* archive-backend.py and new-website-generator.py read the tags of a record
RECURSIVE SplitTags(_)
SplitTags(s) ==
    IF Occurs(s, ",")
    THEN LET k == CHOOSE i \in 1..Len(s) :
                     s[i] = "," /\ \A j \in 1..(i - 1) : s[j] # ","
         IN  {Strip(SubSeq(s, 1, k - 1))} \cup SplitTags(SubSeq(s, k + 1, Len(s)))
    ELSE {Strip(s)}

TagList(path_tags) == IF path_tags = <<>> THEN {} ELSE SplitTags(path_tags) \ {<<>>}

\* the folder names of the model
PtFolders ==
    { <<"1", "9", "9", "8">>,
      <<"v", "a", "c", "a", "t", "i", "o", "n">>,
      <<"1", "9", "4", "5">>,
      <<"D", "C", "I", "M">>,
      <<"P", "h", "o", "t", "o", "s", " ", "f", "r", "o", "m", " ", "2", "0", "1", "9">>,
      <<"T", "r", "i", "p", "1", "9", "9", "8">>,
      <<"a", "b", " ", "2", "0", "0", "5">>,
      <<"S", "m", "i", "t", "h", ",", " ", "J", "o">>,
      <<"2", "0", "1", "0", " ", "b", "e", "a", "c", "h", " ", "t", "r", "i", "p">>,
      <<"h", "A", "W", "A", "I", "I", " ", "2", "g", "o">> }

\* the relative directories: one folder, or two with either separator
PtPaths ==
    PtFolders \cup {a \o <<sep>> \o b : a \in PtFolders, b \in PtFolders, sep \in {"/", "\\"}}

PathInit ==
    /\ PipelineIdle
    /\ dr = DrNone /\ hs = HsNone /\ cc = CcNone
    /\ ro = RoNone /\ su = SuNone /\ pb = PbNone
    /\ pt \in {[by |-> "", rel_path |-> p, out |-> <<>>] : p \in PtPaths}

\* tags = extract_path_tags(virt_dir) in run_ingestor of ingest-photos.py
TagsIngestPhotos ==
    /\ pt.by = ""
    /\ pt' = [pt EXCEPT !.by = "ingest-photos", !.out = extract_path_tags(pt.rel_path)]
    /\ UNCHANGED <<pipeline, dr, hs, cc, ro, su, pb>>

\* tags = extract_path_tags(virt_dir) in run_ingestor of ingestor-v1.py
TagsIngestorV1 ==
    /\ pt.by = ""
    /\ pt' = [pt EXCEPT !.by = "ingestor-v1", !.out = extract_path_tags(pt.rel_path)]
    /\ UNCHANGED <<pipeline, dr, hs, cc, ro, su, pb>>

PathNext ==
    \/ TagsIngestPhotos
    \/ TagsIngestorV1

PathSpec == PathInit /\ [][PathNext]_vars

----------------------------------------------------------------------------
(* The name-collision probe of process_file, one pass of its loop at a time, for the   *)
(* file of slot 1 and an index that holds some of the names the probe can meet         *)

\* the largest suffix of a name the index holds
MaxSuffix == 3

\* the target path first proposed (k = 0) and the k-th suffixed one
ProbePath(k) == IF k = 0 THEN GatherTarget(1, <<>>) ELSE GatherTarget(1, <<k>>)

\* the rows of an index in which the names of K are taken by files of the sizes sz[k]
ProbeRows(K, sz) == {[path |-> ProbePath(k), size |-> sz[k], sha |-> "other"] : k \in K}

FileSizes == {SizeOf(c) : c \in Contents}

ProbeInit ==
    /\ PipelineIdle
    /\ dr = DrNone /\ hs = HsNone /\ cc = CcNone
    /\ ro = RoNone /\ su = SuNone /\ pt = PtNone
    /\ \E K \in SUBSET (0..MaxSuffix), sz \in [0..MaxSuffix -> FileSizes], size \in FileSizes :
          pb = [state |-> "probing", index |-> ProbeRows(K, sz), size |-> size,
                counter |-> 1, target |-> ProbePath(0)]

\* (mutant) the counter is not advanced
ProbeStep_CounterStuck ==
    /\ pb.state = "probing"
    /\ LET rows == FindByPath(pb.index, pb.target)
       IN  IF rows = {} THEN pb' = [pb EXCEPT !.state = "chosen"]
           ELSE IF pb.size = (CHOOSE r \in rows : TRUE).size
           THEN pb' = [pb EXCEPT !.state = "skipped"]
           ELSE pb' = [pb EXCEPT !.target = ProbePath(pb.counter)]
    /\ UNCHANGED <<pipeline, dr, hs, cc, ro, su, pt>>

\* one pass of the while True loop
ProbeStep ==
    /\ pb.state = "probing"
    /\ LET rows == FindByPath(pb.index, pb.target)
       IN  IF rows = {} THEN pb' = [pb EXCEPT !.state = "chosen"]
           ELSE IF pb.size = (CHOOSE r \in rows : TRUE).size
           THEN pb' = [pb EXCEPT !.state = "skipped"]
           ELSE pb' = [pb EXCEPT !.target = ProbePath(pb.counter),
                                 !.counter = @ + 1]
    /\ UNCHANGED <<pipeline, dr, hs, cc, ro, su, pt>>

\* INSERT INTO dest_files ... for the chosen path: a plain INSERT, which a taken
\* dest_path makes fail
ProbeInsert ==
    /\ pb.state = "chosen"
    /\ IF DestKeyFree(pb.index, pb.target)
       THEN pb' = [pb EXCEPT !.state = "inserted",
                             !.index = @ \cup {[path |-> pb.target, size |-> pb.size,
                                                sha |-> "new"]}]
       ELSE pb' = [pb EXCEPT !.state = "integrity_error"]
    /\ UNCHANGED <<pipeline, dr, hs, cc, ro, su, pt>>

ProbeNext ==
    \/ ProbeStep
    \/ ProbeInsert

\* process_file runs on as long as it has a step to take
ProbeSpec == ProbeInit /\ [][ProbeNext]_vars /\ WF_vars(ProbeNext)

----------------------------------------------------------------------------
(* Properties *)

Ids(idx) == {r.sha : r \in idx}
RowsOf(idx, h) == {r \in idx : r.sha = h}

\* the archive file of row r holds the bytes whose digest is r.sha
Intact(arch, r) == \E c \in Contents : Digest(c) = r.sha /\ BytesAt(arch, r.path) = {c}

\* the run has ended normally and nothing outside the program has acted since it began
RunDone == pc = "done" /\ envs = atStart.envs

\* C1: two source files with identical bytes and different names, both processed by a
\* run that ended without error, leave exactly one row with that digest
C1_OneRecordPerContent ==
    (RunDone /\ stats.errors = 0) =>
        \A i, j \in Slots :
            (i # j /\ src[i].readable /\ src[j].readable /\ src[i].bytes = src[j].bytes)
                => Cardinality(RowsOf(index, Digest(src[i].bytes))) = 1

\* every source file has a row with its digest
AllRecorded(idx) == \A i \in Slots : RowsOf(idx, Digest(src[i].bytes)) # {}

\* C2: a run started right after a run that ended without error, over a source whose
\* files all have rows, at no point inserts a row or copies a file, and index and
\* archive stay as they were when it began
C2_RerunChangesNothing ==
    (atStart.rerun /\ AllRecorded(atStart.index) /\ envs = atStart.envs) =>
        /\ last.inserts = 0
        /\ last.copies = 0
        /\ stats.new_ingested = 0
        /\ index = atStart.index
        /\ archive = atStart.archive

C2_Witness ==
    /\ RunDone /\ atStart.rerun /\ AllRecorded(atStart.index)
    /\ stats.duplicates_skipped = NFiles
    /\ index # {}

\* C3: after a run that ended with no copy failure, every readable source file has a
\* row with its digest whose archive file holds exactly its bytes
C3_NoPhotoLost ==
    (RunDone /\ last.faults = 0) =>
        \A i \in Slots :
            src[i].readable =>
                \E r \in index : /\ r.sha = Digest(src[i].bytes)
                                 /\ BytesAt(archive, r.path) = {src[i].bytes}

\* C4: a row whose archive file was missing when the run began, and whose bytes are in
\* the source, is after the run the only row of its digest and names a file with
\* those bytes
C4_MissingFileHealed ==
    (RunDone /\ last.faults = 0) =>
        \A r0 \in atStart.index :
            \A i \in Slots :
                (/\ ~Exists(atStart.archive, r0.path)
                 /\ src[i].readable
                 /\ Digest(src[i].bytes) = r0.sha)
                    => /\ Cardinality(RowsOf(index, r0.sha)) = 1
                       /\ \A r \in RowsOf(index, r0.sha) :
                             BytesAt(archive, r.path) = {src[i].bytes}

\* C5: at every point of a run, every row whose archive file matched its digest when
\* the run began (and every row added by the run) still has a matching archive file
C5_CommittedRowsStayIntact ==
    (envs = atStart.envs) =>
        \A r \in index :
            (\A r0 \in RowsOf(atStart.index, r.sha) : Intact(atStart.archive, r0))
                => Intact(archive, r)

\* the destination first proposed for slot i, and its k-th suffixed name
Proposed(i) == IF program = "ingest" THEN IngestDestPath(i) ELSE GatherTarget(i, <<>>)
Suffixed(p, k) == [p EXCEPT !.name.sfx = @ \o <<k>>]

\* the first of name_k, name_k+1, ... that is empty or holds exactly the bytes b
RECURSIVE FirstFit(_, _, _, _)
FirstFit(arch, p, b, k) ==
    IF BytesAt(arch, Suffixed(p, k)) \subseteq {b} THEN Suffixed(p, k)
    ELSE FirstFit(arch, p, b, k + 1)

\* C6: when an item with a new digest, whose proposed destination held other bytes,
\* has been dealt with, it is recorded at the first suffixed name that was empty or
\* held the same bytes; a slot that held the same bytes was reused without a copy;
\* every other file of the archive is as it was
C6_SuffixProbe ==
    LET i == last.slot
        b == src[i].bytes
        p == Proposed(i)
        fit == FirstFit(atItem.archive, p, b, 1)
    IN  (/\ pc = "walk"
         /\ last.kind \in {"committed", "collision"}
         /\ src[i].readable
         /\ RowsOf(atItem.index, Digest(b)) = {}
         /\ ~(BytesAt(atItem.archive, p) \subseteq {b}))
            => /\ \E r \in index : r.sha = Digest(b) /\ r.path = fit
               /\ BytesAt(archive, fit) = {b}
               /\ (BytesAt(atItem.archive, fit) = {b} => archive = atItem.archive)
               /\ \A f \in atItem.archive : f.path # fit => f \in archive

\* C7: a run that completes after an interrupted run, with the source unchanged and no
\* copy failure in either, ends with the digests of one uninterrupted run from the state the
\* interrupted run began in, each in one row, and every row names an existing file
C7_ResumeEqualsUninterrupted ==
    (/\ RunDone
     /\ atStart.resumed
     /\ atStart.faults = 0
     /\ last.faults = 0
     /\ \A r \in atStart.origin.index : Exists(atStart.origin.archive, r.path))
        => /\ Ids(index) = Ids(FullRun(atStart.origin, 1).index)
           /\ Cardinality(index) = Cardinality(Ids(index))
           /\ \A r \in index : Exists(archive, r.path)

\* a resumed run has completed after a run that was killed between a copy and its commit
C7_Witness ==
    /\ RunDone /\ atStart.resumed /\ atStart.faults = 0 /\ last.faults = 0
    /\ \A r \in atStart.origin.index : Exists(atStart.origin.archive, r.path)
    /\ \E f \in atStart.archive : \A r \in atStart.index : r.path # f.path
    /\ atStart.origin.index # {}
    /\ Cardinality(index) > Cardinality(atStart.origin.index)

\* C8: a step in which the copy fails counts one error, leaves the index as it was
\* before the item, leaves no row pending, and moves the walk to the next file; and a
\* row that enters the index names a file that exists
C8_CopyFailureSkipsItem ==
    [][/\ (pc = "copy" /\ last'.kind = "copy_failed")
            => /\ index' = index
               /\ index' = atItem.index
               /\ pending' = {}
               /\ archive' = archive
               /\ stats'.errors = stats.errors + 1
               /\ stats'.new_ingested = stats.new_ingested
               /\ pc' = "walk"
               /\ pos' = pos + 1
       /\ \A r \in index' : (r.sha \notin Ids(index)) => Exists(archive', r.path)
      ]_vars

C8_Witness ==
    /\ last.kind = "copy_failed"
    /\ pc = "walk" /\ pos \in Slots
    /\ stats.errors = 1
    /\ index = atItem.index /\ index # {}

\* C9: a step that begins an unreadable file is a hash error: it counts one error,
\* moves to the next file and touches neither index nor archive; no lookup, copy or
\* insert is made for the file
C9_HashFailurePropagates ==
    [][(pc = "walk" /\ pos \in Slots /\ ~src[pos].readable /\ pc' # "crashed")
          => /\ last'.kind = "hash_error"
             /\ stats'.errors = stats.errors + 1
             /\ pc' = "walk"
             /\ pos' = pos + 1
             /\ index' = index
             /\ archive' = archive
      ]_vars

\* the notes of every row are the first non-empty description met for its digest
NotesAreFirstSeen ==
    program = "ingest" =>
        \A r \in index : IF Truthy(seen[r.sha]) THEN r.notes = seen[r.sha]
                         ELSE ~Truthy(r.notes)

\* C10: a step that re-encounters an indexed digest sets the row's notes to the
\* sidecar description if and only if the description is non-empty and the row has no
\* notes, and changes nothing else of the index; the notes of every row are the first
\* non-empty description met for its digest
C10_NotesFusion ==
    [][/\ (program = "ingest" /\ pc = "walk" /\ last'.kind \in {"merged", "duplicate"})
            => LET h == Digest(src[pos].bytes)
                   d == src[pos].desc
               IN  /\ Cardinality(index') = Cardinality(index)
                   /\ \A r \in index :
                         IF r.sha = h /\ Truthy(d) /\ ~Truthy(r.notes)
                         THEN [r EXCEPT !.notes = d] \in index'
                         ELSE r \in index'
       /\ NotesAreFirstSeen'
      ]_vars

\* a row with notes has just been re-encountered with another description and kept them
C10_Witness ==
    /\ program = "ingest" /\ last.kind = "duplicate" /\ pc = "walk"
    /\ \E r \in index :
          /\ r.sha = Digest(src[last.slot].bytes)
          /\ Truthy(src[last.slot].desc)
          /\ Truthy(r.notes)
          /\ r.notes # src[last.slot].desc

\* the curation columns of a row, and a row as the INSERT creates it
NewRow == MediaRow("", NoPath, NoName, Resolved(NoDate, ""), NoneVal, FALSE)
Curation(r) == [col \in DOMAIN CurationValues |-> r[col]]

\* C11: a step that re-encounters an indexed digest whose recorded file exists copies
\* nothing and leaves every column of the row but its notes as it was; and a step of a
\* run leaves the curation columns of every row as they were, a row it creates having
\* the defaults
C11_ReencounterIsNoop ==
    [][/\ (/\ pc = "walk" /\ last'.kind \in {"merged", "duplicate"}
           /\ \A r \in RowsOf(index, Digest(src[pos].bytes)) : Exists(archive, r.path))
            => /\ archive' = archive
               /\ thumbs' = thumbs
               /\ last'.copies = last.copies
               /\ Cardinality(index') = Cardinality(index)
               /\ \A r \in index :
                     \E r2 \in index' : [r2 EXCEPT !.notes = r.notes] = r
       /\ (program = "ingest" /\ ~Between)
            => \A r2 \in index' :
                  IF r2.sha \in Ids(index)
                  THEN \E r \in RowsOf(index, r2.sha) : Curation(r2) = Curation(r)
                  ELSE Curation(r2) = Curation(NewRow)
      ]_vars

\* a row the browsing layer has curated has just been re-encountered and given notes
C11_Witness ==
    /\ program = "ingest" /\ pc = "walk" /\ last.kind = "merged"
    /\ \E r \in index :
          /\ r.sha = Digest(src[last.slot].bytes)
          /\ r.notes = src[last.slot].desc
          /\ Exists(archive, r.path)
          /\ Curation(r) # Curation(NewRow)

StopPending == program = "gather" /\ stop_requested /\ ~Between

\* C23: a stop request changes nothing but the flag; with a stop pending the file in
\* hand goes on as without: its copy is followed by the INSERT, the INSERT by the commit,
\* which records the copied file, and a failed copy records nothing; when the file is
\* dealt with the index is as before the file or has the one row of the file, whose
\* archive file exists; at the head of the file loop no further file is started; the run
\* then ends, and every row of the index of the ended run names an existing file
C23_StopAtFileBoundary ==
    /\ [][/\ (stop_requested' /\ ~stop_requested)
               => /\ index' = index /\ archive' = archive /\ pending' = pending
                  /\ pc' = pc /\ pos' = pos /\ cur' = cur /\ stats' = stats
          /\ (StopPending /\ pc = "copy")
               => \/ pc' = "insert" /\ pos' = pos /\ Exists(archive', cur.dest)
                  \/ /\ last'.kind = "copy_failed" /\ pc' = "walk"
                     /\ index' = atItem.index /\ pending' = {}
          /\ (StopPending /\ pc = "insert") => pc' = "commit" /\ pos' = pos
          /\ (StopPending /\ pc = "commit")
               => /\ pc' = "walk"
                  /\ \E r \in index' : /\ index' = atItem.index \cup {r}
                                       /\ r.path = cur.dest
                                       /\ r.sha = Digest(src[pos].bytes)
                                       /\ BytesAt(archive', r.path) = {src[pos].bytes}
          /\ (StopPending /\ pc = "walk")
               => /\ pc' \in {"stopped", "done"}
                  /\ index' = index /\ archive' = archive /\ pos' = pos
                  /\ stats' = stats
         ]_vars
    /\ [](pc = "stopped" => /\ pending = {}
                            /\ \A r \in index : Exists(archive, r.path))
    /\ (StopPending ~> pc \in {"stopped", "done"})

\* a stop was requested between the copy and the INSERT of the first file; the file was
\* recorded, the second file was not started, and the run has ended
C23_Witness ==
    /\ program = "gather" /\ pc = "stopped" /\ stop_requested
    /\ last.stopAt = "insert"
    /\ pos = 2 /\ last.inserts = 1 /\ last.copies = 1
    /\ \E r \in index : BytesAt(archive, r.path) = {src[1].bytes}

\* the files the counters of the summary account for
Counted(st) == st.new_ingested + st.duplicates_skipped + st.collisions_skipped + st.errors

\* C29: at every point of a run the files dealt with so far are counted once each as
\* newly ingested, duplicate (or collision) skipped or errored, so that the summary of a
\* run that ended accounts for every file of the walk; the merges are no more than the
\* duplicates skipped; and the newly ingested are the rows the run has committed
C29_SummaryPartitionsTheWork ==
    /\ Counted(stats) = pos - 1
    /\ pc = "done" => Counted(stats) = NFiles
    /\ stats.metadata_updates <= stats.duplicates_skipped
    /\ stats.new_ingested = last.inserts
    /\ (envs = atStart.envs) =>
          Cardinality(index) = Cardinality(atStart.index) + stats.new_ingested

\* a run of ingest-photos.py has ended that ingested one file and met its bytes again
\* with a description, which it merged
C29_Witness ==
    /\ program = "ingest" /\ pc = "done"
    /\ stats.new_ingested = 1 /\ stats.duplicates_skipped = 1
    /\ stats.metadata_updates = 1 /\ stats.errors = 0
    /\ Cardinality(index) = Cardinality(atStart.index) + 1

----------------------------------------------------------------------------
(* Properties of the date resolvers *)

\* the sidecar carries a timestamp of year y
SidecarYearIs(sc, y) == sc.present /\ sc.ts # NoDate /\ sc.ts.y = y

\* the sidecar carries a timestamp of a valid year that agrees with the folder year
UsableSidecar(sc, hint) ==
    /\ sc.present /\ sc.ts # NoDate
    /\ InValidYearRange(sc.ts.y)
    /\ (hint = 0 \/ sc.ts.y = hint)

\* a folder year is matched and neither the sidecar nor the EXIF date is of that year
OnlyFolderYear ==
    /\ dr.by \in {"ingest-photos", "ingestor-v1"}
    /\ dr.in.folder_year # 0
    /\ ~SidecarYearIs(dr.in.sidecar, dr.in.folder_year)
    /\ dr.in.exif.y # dr.in.folder_year

LabelOf(by, rule) ==
    IF by = "ingest-photos"
    THEN CASE rule = "embedded-corroborated" -> "EXIF (Corroborated by Folder)"
           [] rule = "embedded-unverified" -> "EXIF (Unverified)"
           [] rule = "filesystem-fallback" -> "File Creation (Unverified)"
           [] rule = "invalid" -> "Invalid/Fallback"
           [] OTHER -> rule
    ELSE IF by = "ingestor-v1"
    THEN CASE rule = "sidecar-corroborated" -> "JSON"
           [] rule \in {"embedded-corroborated", "embedded-unverified"} -> "EXIF"
           [] rule = "filesystem-fallback" -> "FileSystem"
           [] rule = "invalid" -> "Invalid"
           [] OTHER -> rule
    ELSE ""

\* C13: a sidecar timestamp of a valid year that agrees with the folder year (if there
\* is one) is the result, labelled as the sidecar rule, whatever the EXIF date is
C13_SidecarFirst ==
    (/\ dr.by \in {"ingest-photos", "ingestor-v1"}
     /\ UsableSidecar(dr.in.sidecar, dr.in.folder_year))
        => dr.out = Resolved(dr.in.sidecar.ts, LabelOf(dr.by, "sidecar-corroborated"))

\* a folder year, no usable sidecar, and an EXIF date of the folder year, which is valid
EmbeddedCorroborated ==
    /\ dr.by # ""
    /\ dr.in.folder_year # 0
    /\ ~UsableSidecar(dr.in.sidecar, dr.in.folder_year)
    /\ dr.in.exif.y = dr.in.folder_year
    /\ InValidYearRange(dr.in.exif.y)

ZeroDate == Date(0, 1, 1, 0)
Before(a, b) ==
    \/ a.y < b.y
    \/ a.y = b.y /\ a.m < b.m
    \/ a.y = b.y /\ a.m = b.m /\ a.d < b.d
    \/ a.y = b.y /\ a.m = b.m /\ a.d = b.d /\ a.t < b.t

\* C16: a file under a folder named Undated resolves to the zero date, labelled
\* "undated-override", and the zero date is before every date a file without the marker
\* can resolve to
C16_UndatedOverride ==
    /\ (dr.by \in {"ingest-photos", "ingestor-v1"} /\ dr.in.undated)
          => dr.out = Resolved(ZeroDate, "undated-override")
    /\ (dr.by \in {"ingest-photos", "ingestor-v1"} /\ ~dr.in.undated)
          => Before(ZeroDate, dr.out.dt)

\* the labels of the results that are taken from the file's mtime
FileTimeLabels == {"File Creation (Corroborated by Folder)", "File Creation (Unverified)",
                   "Invalid/Fallback", "Folder-Override", "FileSystem", "Invalid"}

Hinted ==
    /\ dr.by \in {"ingest-photos", "ingestor-v1"}
    /\ dr.in.folder_year # 0
    /\ ~dr.in.undated

\* C27 as stated: with a folder year the year of the result is the folder year, whatever
\* the sidecar, the EXIF date and the mtime are
C27_ResolvedYearIsHintYear ==
    Hinted => dr.out.dt.y = dr.in.folder_year

\* C27 amended: with a folder year the year of the result is the folder year in
\* determine_best_date, and in get_validated_date if the folder year is in the valid
\* range; get_validated_date takes a folder year of 2027 to 2029 for none
C27_ResolvedYearIsValidHintYear ==
    /\ (Hinted /\ dr.by = "ingest-photos") => dr.out.dt.y = dr.in.folder_year
    /\ (Hinted /\ dr.by = "ingestor-v1") =>
          IF InValidYearRange(dr.in.folder_year)
          THEN dr.out.dt.y = dr.in.folder_year
          ELSE dr.out = get_validated_date(dr.in.exif, dr.in.mtime, 0, dr.in.sidecar)

\* get_validated_date has met a sidecar and an EXIF date of other years than the folder
\* year and has put the mtime into the folder year; and it has met the folder year 2028
\* and returned the sidecar's date of 2005
C27_Witness ==
    /\ Hinted /\ dr.by = "ingestor-v1"
    /\ UsableSidecar(dr.in.sidecar, 0) /\ dr.in.exif # NoDate
    /\ \/ /\ dr.in.folder_year = 1998
          /\ dr.in.sidecar.ts.y = 2005 /\ dr.in.exif.y = 2005 /\ dr.in.mtime.y = 2010
          /\ dr.out.dt.y = 1998
       \/ /\ dr.in.folder_year = 2028
          /\ dr.out = Resolved(dr.in.sidecar.ts, "JSON")

\* the labels of the results that stand for "no usable date"
InvalidLabels == {"Invalid/Fallback", "Invalid", "undated-override"}

\* C28: every result that is not labelled invalid (or undated) has a year in the valid
\* range, for every folder year the pattern admits
C28_ResolvedYearInValidRange ==
    (dr.by \in {"ingest-photos", "ingestor-v1"} /\ dr.out.label \notin InvalidLabels)
        => InValidYearRange(dr.out.dt.y)

----------------------------------------------------------------------------
(* Properties of hero selection *)

\* C18: for a collection of at most 16 photos, the empty one included, the heroes are
\* the collection itself: every photo once, in the order of the collection
C18_SmallCollectionIsItsOwnHeroes ==
    (hs.by # "" /\ Len(hs.photos) <= 16) => hs.out = hs.photos

\* a collection of exactly 16 photos, some with coordinates, has been given its heroes
C18_Witness ==
    /\ hs.by = "web-builder" /\ Len(hs.photos) = 16 /\ hs.clusters # {}
    /\ hs.out = hs.photos

\* C19: for a collection of n > 16 photos without coordinates there are exactly 16
\* heroes, the i-th (i = 0..15) being the photo at index floor(i*n/16); they are
\* pairwise distinct and in the order of the collection; for n = 40 the first five are
\* the photos at 0, 2, 5, 7 and 10
C19_EvenlySpacedHeroes ==
    LET n == Len(hs.photos)
    IN  (hs.by # "" /\ n > 16 /\ hs.clusters = {}) =>
            /\ Len(hs.out) = 16
            /\ \A i \in 0..15 : hs.out[i + 1] = hs.photos[(i * n) \div 16 + 1]
            /\ \A i, j \in 1..16 : i < j => hs.out[i] < hs.out[j]
            /\ n = 40 => SubSeq(hs.out, 1, 5) = <<100, 102, 105, 107, 110>>

\* web-builder.py has chosen the heroes of 40 photos without coordinates
C19_Witness ==
    /\ hs.by = "web-builder" /\ Len(hs.photos) = 40 /\ hs.clusters = {}
    /\ Len(hs.out) = 16
    /\ hs.out[16] = 137

\* the member at the median position of the members of a cluster in index order
MedianOf(c) == CHOOSE e \in c : Cardinality({x \in c : x < e}) = Cardinality(c) \div 2

\* the index in the collection of a hero
IndexOfHero(p) == p - 100

\* C26: for a collection of more than 16 photos, whichever photos carry coordinates and
\* however they are clustered, get_16_heroes returns exactly 16 photos, pairwise distinct
\* and in the order of the collection; the median member of every cluster is among them;
\* and the others are the photos at the positions floor(i * len / r), i = 0..r-1, of the
\* len photos that are no median, r being 16 less the number of clusters
C26_ClusterHeroes ==
    LET n == Len(hs.photos)
        medians == {MedianOf(c) : c \in hs.clusters}
        chosen == {IndexOfHero(hs.out[k]) : k \in 1..Len(hs.out)}
        others == (0..(n - 1)) \ medians
        r == 16 - Cardinality(medians)
    IN  (hs.by = "web-builder" /\ n > 16) =>
            /\ Len(hs.out) = 16
            /\ \A i, j \in 1..16 : i < j => hs.out[i] < hs.out[j]
            /\ \A k \in 1..16 : hs.out[k] = hs.photos[IndexOfHero(hs.out[k]) + 1]
            /\ medians \subseteq chosen
            /\ chosen \ medians =
                  {e \in others :
                      \E i \in 0..(r - 1) :
                         Cardinality({x \in others : x < e}) = (i * Cardinality(others)) \div r}

\* 40 photos of which every second carries coordinates, in three clusters: the three
\* medians and 13 sampled photos are the heroes
C26_Witness ==
    /\ hs.by = "web-builder" /\ Len(hs.photos) = 40
    /\ Cardinality(hs.clusters) = 3
    /\ \A c \in hs.clusters : Cardinality(c) >= 2 /\ MedianOf(c) # NthOf(c, 0)
    /\ UNION hs.clusters # 0..39
    /\ Len(hs.out) = 16
    /\ \A c \in hs.clusters : \E k \in 1..16 : hs.out[k] = 100 + MedianOf(c)

----------------------------------------------------------------------------
(* Properties of the composite cache *)

\* two lists hold the same identities, each as often as the other, in different orders
Reordered(a, b) ==
    /\ a # b
    /\ Len(a) = Len(b)
    /\ \A x \in CcIds : Len(SelectSeq(a, LAMBDA y : y = x)) = Len(SelectSeq(b, LAMBDA y : y = x))

\* C20: two requested hero lists (of at most 16) with the same identities in different
\* orders have two entries under two keys, each showing its own order; and a request
\* leaves every entry of the cache as it was, one entry per key
C20_OrderKeysTheCache ==
    [][/\ \A e \in cc.entries : e \in cc'.entries
       /\ \A e1, e2 \in cc'.entries : e1.key = e2.key => e1 = e2
       /\ \A a, b \in cc'.asked :
             (Reordered(a, b) /\ Len(a) <= CompositeCells) =>
                 /\ CompositeKey(a) # CompositeKey(b)
                 /\ \E ea, eb \in cc'.entries :
                       /\ ea # eb
                       /\ ea.key = CompositeKey(a) /\ ea.cells = a
                       /\ eb.key = CompositeKey(b) /\ eb.cells = b
      ]_vars

\* [A,B,C] and [C,B,A] have been requested and the cache holds a montage of each
C20_Witness ==
    /\ {<<"A", "B", "C">>, <<"C", "B", "A">>} \subseteq cc.asked
    /\ \E ea, eb \in cc.entries :
          /\ ea.cells = <<"A", "B", "C">>
          /\ eb.cells = <<"C", "B", "A">>
          /\ ea.key # eb.key

----------------------------------------------------------------------------
(* Properties of rotation and thumbnails *)

\* C21: a step that rotates a file in place leaves no thumbnail entry of that file, and
\* no thumbnail that is served was made of another revision of its file than the
\* current one
C21_RotationInvalidates ==
    [][/\ \A i \in Photos :
             ro'.files[i].rev # ro.files[i].rev => ~HasThumb(ro'.thumbs, i)
       /\ \A t \in ro'.thumbs : t.rev = ro'.files[t.photo].rev
      ]_vars

----------------------------------------------------------------------------
(* Properties of the startup *)

\* a source root is missing, or the destination root is out of reach
RootUnreachable ==
    \/ \E i \in DOMAIN su.in.sources : ~su.in.sources[i]
    \/ su.in.dest.root = "unreachable"

\* C24: a script started with a missing source root or with a destination root out of
\* reach ends without work: the destination is as it was (no directory made, no database
\* or table made), no root is walked, and the script has not gone on to its summary
C24_AbortBeforeWork ==
    (su.by # "" /\ RootUnreachable) =>
        /\ su.out.dest = su.in.dest
        /\ su.out.walked = {}
        /\ su.out.outcome \in {"exit", "raised"}

----------------------------------------------------------------------------
(* Properties of path tags *)

\* a folder name with every run of four digits cut out, from position k on
RECURSIVE WithoutYears(_, _)
WithoutYears(s, k) ==
    IF k > Len(s) THEN <<>>
    ELSE IF k + 3 <= Len(s) /\ \A j \in k..(k + 3) : IsDigit(s[j])
    THEN WithoutYears(s, k + 4)
    ELSE <<s[k]>> \o WithoutYears(s, k + 1)

BareYear(t) == Len(t) = 4 /\ \A i \in 1..4 : IsDigit(t[i])

\* C25: the tags of a relative directory are exactly the title-cased forms of its
\* folders with their 4-digit years cut out and their ends trimmed, those left out that
\* are then shorter than 4 or, in lower case, in the stoplist; so no tag is a stoplist
\* phrase, shorter than 4 or a bare year; and 1998/vacation has the one tag Vacation
C25_PathTags ==
    pt.by # "" =>
        LET tags == TagList(pt.out)
            folders == SplitPath(pt.rel_path)
            clean(f) == Strip(WithoutYears(f, 1))
        IN  /\ tags = {Title(clean(folders[i])) :
                          i \in {j \in 1..Len(folders) :
                                    /\ Len(clean(folders[j])) >= MinTagLen
                                    /\ Lower(clean(folders[j])) \notin IgnorePhrases}}
            /\ \A t \in tags : /\ Len(t) >= MinTagLen
                               /\ Lower(t) \notin IgnorePhrases
                               /\ ~BareYear(t)
            /\ pt.rel_path = <<"1", "9", "9", "8", "/", "v", "a", "c", "a", "t", "i", "o", "n">>
                  => tags = {<<"V", "a", "c", "a", "t", "i", "o", "n">>}

----------------------------------------------------------------------------
(* Properties of the name-collision probe *)

\* C30: the probe ends, after no more passes than the index has rows and one; the path
\* it chooses is the path of no row, and is the one the loop of process_file computes at
\* once; the INSERT that follows does not fail on the primary key and leaves every row
\* of the index as it was
C30_ProbeEndsOnFreePath ==
    /\ <>(pb.state \in {"skipped", "inserted"})
    /\ [](pb.counter <= Cardinality(pb.index) + 2)
    /\ [](pb.state # "integrity_error")
    /\ [](pb.state = "chosen" =>
             /\ FindByPath(pb.index, pb.target) = {}
             /\ Probe(pb.index, 1, pb.size, ProbePath(0), 1)
                   = [skip |-> FALSE, path |-> pb.target])
    /\ [][pb'.state = "inserted" =>
             /\ pb.index \subseteq pb'.index
             /\ Cardinality(pb'.index) = Cardinality(pb.index) + 1
             /\ Cardinality({r.path : r \in pb'.index}) = Cardinality(pb'.index)
         ]_vars

\* the proposed name and its first two suffixed names were taken by files of another
\* size; the file has been recorded under the third
C30_Witness ==
    /\ pb.state = "inserted"
    /\ pb.counter = 4
    /\ pb.target = ProbePath(3)
    /\ Cardinality(pb.index) >= 4

====
